---- MODULE Spec2Model ----
(***************************************************************************)
(* FirestoreUtil (firebase-helpers): typed document / collection reads,    *)
(* cursor pagination and batched collection deletion over a Firestore      *)
(* collection.                                                             *)
(*                                                                         *)
(* The collection "items" holds documents named 1..MaxDocs; Firestore's    *)
(* default order (by document name) is the order of these integers.  A     *)
(* document's reference path ("items/<id>") is encoded as 100 + id, and    *)
(* the absent continuation reference (undefined) as 0.  Payloads are       *)
(* finite maps from field names to values.                                 *)
(***************************************************************************)
EXTENDS Integers, Sequences, FiniteSets, TLC

\* Bounds of the model
MaxDocs == 3
MaxInterval == 3
MaxItemDocs == 2
MaxBatchSize == 2

\* cursorQuery's page size when no cursor is passed
DefaultInterval == 10

\* deleteCollection's batch size when none is passed
DefaultBatchSize == 300

VARIABLES
  store,   \* the collection: document id -> payload, for the documents that exist
  pc,      \* position of the reading call: "idle", "docGet", "queryGet"
  call,    \* arguments of the reading call in progress, or of the last one
  q,       \* the query the reading call has built so far
  ret,     \* what the last reading call returned
  out,     \* the last queryData application: <<>> or <<[src, res]>>
  sess,    \* history: the pagination session the calls so far form
  dc,      \* the deleteCollection runs: run -> promise, pending work, history
  ac,      \* the last _applyQueryConstraints application: <<>> or <<[query, list, res]>>
  inserts  \* history: how many records other writers have inserted

readVars == <<pc, call, q, ret, out, sess>>

vars == <<store, pc, call, q, ret, out, sess, dc, ac, inserts>>

----------------------------------------------------------------------------
\* Data model

Docs == 1..MaxDocs

NoRef == 0

RefPath(id) == 100 + id

DocOfPath(path) == path - 100

PayloadFields == {"id", "ref", "v"}

PayloadVals == {7}

Payloads == UNION {[D -> PayloadVals] : D \in SUBSET PayloadFields}

PlainPayloads == {p \in Payloads : DOMAIN p = {"v"}}

Stores(ids, payloads) == UNION {[S -> payloads] : S \in SUBSET ids}

Min(a, b) == IF a < b THEN a ELSE b

Ceil(n, p) == (n + p - 1) \div p

RECURSIVE SortedIds(_)
SortedIds(S) ==
  IF S = {} THEN <<>>
  ELSE LET m == CHOOSE x \in S : \A y \in S : x <= y
       IN <<m>> \o SortedIds(S \ {m})

\* DocumentReference.get(): a snapshot, existing or not
DocGet(st, path) ==
  LET id == DocOfPath(path)
  IN [id |-> id, ref |-> path, exists |-> id \in DOMAIN st,
      data |-> IF id \in DOMAIN st THEN st[id] ELSE [f \in {} |-> 0]]

\* firestore.collection(refStr): the unconstrained query on the collection
CollectionRef == [clauses |-> <<>>, startAfter |-> <<>>, limit |-> <<>>]

\* where(fieldPath, opStr, value)
where(fieldPath, opStr, value) ==
  [type |-> "where", fieldPath |-> fieldPath, opStr |-> opStr, value |-> value]

\* mutant: the filters are applied first, then the orderings
_applyQueryConstraints_FiltersFirst(query, queryConstraints) ==
  [query EXCEPT !.clauses =
     @ \o SelectSeq(queryConstraints, LAMBDA c : c.type = "where")
       \o SelectSeq(queryConstraints, LAMBDA c : c.type = "orderBy")]

\* _applyQueryConstraints: one clause per constraint, in list order
RECURSIVE _applyQueryConstraints(_, _)
_applyQueryConstraints(query, queryConstraints) ==
  IF queryConstraints = <<>> THEN query
  ELSE LET constraint == Head(queryConstraints)
           next == IF constraint.type \in {"orderBy", "where"}
                   THEN [query EXCEPT !.clauses = Append(@, constraint)]
                   ELSE query
       IN _applyQueryConstraints(next, Tail(queryConstraints))

\* mutant: Query.startAt(doc), the page starts at the referenced document
StartAfter_StartAt(query, doc) == [query EXCEPT !.startAfter = <<doc.ref - 1>>]

\* Query.startAfter(doc): the cursor value is the snapshot's reference
StartAfter(query, doc) == [query EXCEPT !.startAfter = <<doc.ref>>]

\* Query.limit(n)
Limit(query, n) == [query EXCEPT !.limit = <<n>>]

\* whether a document's payload passes every where("..", "==", ..) clause
Matches(clauses, data) ==
  \A i \in 1..Len(clauses) :
    clauses[i].type = "where" =>
      /\ clauses[i].fieldPath \in DOMAIN data
      /\ data[clauses[i].fieldPath] = clauses[i].value

\* Query.get(): the matching documents in name order, after the cursor
\* position, cut to the limit
QueryGet(query, st) ==
  LET ids == {id \in DOMAIN st :
                /\ Matches(query.clauses, st[id])
                /\ query.startAfter # <<>> => RefPath(id) > query.startAfter[1]}
      all == SortedIds(ids)
      n == IF query.limit = <<>> THEN Len(all) ELSE Min(query.limit[1], Len(all))
  IN [i \in 1..n |-> DocGet(st, RefPath(all[i]))]

\* mutant: the payload is spread last, so its id / ref fields win
ToItem_PayloadLast(snapshot) ==
  [f \in DOMAIN snapshot.data \cup {"id", "ref"} |->
     IF f \in DOMAIN snapshot.data THEN snapshot.data[f]
     ELSE IF f = "id" THEN snapshot.id
     ELSE snapshot.ref]

\* the id / ref fields override payload fields of the same name
ToItem(snapshot) ==
  [f \in DOMAIN snapshot.data \cup {"id", "ref"} |->
     IF f = "id" THEN snapshot.id
     ELSE IF f = "ref" THEN snapshot.ref
     ELSE snapshot.data[f]]

\* mutant: only the id is deleted from the copy
queryData_KeepsRef(qr) == [f \in DOMAIN qr \ {"id"} |-> qr[f]]

\* queryData: a copy of the item without its id and ref
queryData(qr) == [f \in DOMAIN qr \ {"id", "ref"} |-> qr[f]]

Cursors ==
  [interval : 0..MaxInterval, hasNext : BOOLEAN,
   startAfter : {NoRef} \cup {RefPath(id) : id \in Docs}]

\* mutant: the cursor used when the caller passes none has no page size
InitialCursor_NoInterval == [interval |-> 0, hasNext |-> TRUE, startAfter |-> NoRef]

\* cursorQuery's cursor when the caller passes none
InitialCursor == [interval |-> DefaultInterval, hasNext |-> TRUE, startAfter |-> NoRef]

\* _applyCursor, with the collection as it is when the continuation reference
\* is resolved
_applyCursor(query, cursor, st) ==
  LET q1 == IF cursor.startAfter # NoRef
            THEN StartAfter(query, DocGet(st, cursor.startAfter))
            ELSE query
  IN IF cursor.interval # 0 THEN Limit(q1, cursor.interval) ELSE q1

\* mutant: the continuation reference is taken from the first item of the page
UpdateCursor_FirstRef(cursor, data) ==
  LET _length == Len(data)
      startAfter == IF _length = 0 THEN cursor.startAfter ELSE data[1].ref
      hasNext == _length = cursor.interval
  IN [cursor EXCEPT !.startAfter = startAfter, !.hasNext = hasNext]

\* mutant: hasNext is set whenever the page is not empty
UpdateCursor_NonEmptyHasNext(cursor, data) ==
  LET _length == Len(data)
      startAfter == IF _length = 0 THEN cursor.startAfter ELSE data[_length].ref
      hasNext == _length > 0
  IN [cursor EXCEPT !.startAfter = startAfter, !.hasNext = hasNext]

\* cursorQuery's cursor update from the page it retrieved
UpdateCursor(cursor, data) ==
  LET _length == Len(data)
      startAfter == IF _length = 0 THEN cursor.startAfter ELSE data[_length].ref
      hasNext == _length = cursor.interval
  IN [cursor EXCEPT !.startAfter = startAfter, !.hasNext = hasNext]

\* mutant: the cursor object is updated in place and handed back
CursorObjects_InPlace(cursor, data) ==
  [arg |-> UpdateCursor(cursor, data), returned |-> UpdateCursor(cursor, data)]

\* cursorQuery's return: the cursor object it worked with stays as it is, the
\* returned cursor is a copy carrying the new startAfter and hasNext
CursorObjects(cursor, data) ==
  [arg |-> cursor, returned |-> UpdateCursor(cursor, data)]

ConstraintLists == {<<>>, <<where("v", "==", 7)>>}

\* unchanged holds from a call's return until the collection is written to
NoResult ==
  [status |-> "none", data |-> <<>>, snaps |-> <<>>, cursor |-> <<>>,
   unchanged |-> FALSE]

Failure ==
  [status |-> "error", data |-> <<>>, snaps |-> <<>>, cursor |-> <<>>,
   unchanged |-> FALSE]

\* mutant: a snapshot that does not exist makes docQuery fail
DocQueryResult_MissingFails(snapshot) ==
  IF snapshot.exists
  THEN [status |-> "ok", data |-> <<ToItem(snapshot)>>, snaps |-> <<snapshot.id>>,
        cursor |-> <<>>, unchanged |-> TRUE]
  ELSE Failure

\* docQuery's result from the snapshot it fetched: the item when the snapshot
\* exists, null (no item) otherwise
DocQueryResult(snapshot) ==
  [status |-> "ok",
   data |-> IF snapshot.exists THEN <<ToItem(snapshot)>> ELSE <<>>,
   snaps |-> IF snapshot.exists THEN <<snapshot.id>> ELSE <<>>,
   cursor |-> <<>>, unchanged |-> TRUE]

\* no call made yet.  queryConstraints and cursor are the argument objects as
\* they are now, givenConstraints and given what the caller passed (given is
\* empty when no cursor was passed); found and stale record what the call's
\* document fetch saw; again holds while the call repeats the previous call,
\* which returned an empty page, with the cursor that call returned and the
\* collection has not changed since that page
NoCall ==
  [op |-> "none", queryConstraints |-> <<>>, cursor |-> <<>>, path |-> NoRef,
   stale |-> FALSE, found |-> FALSE, givenConstraints |-> <<>>, given |-> <<>>,
   again |-> FALSE]

\* valid .. lastEmpty describe a session over a collection nobody has written
\* to; chain .. gone describe any chain of cursorQuery calls: the records its
\* pages returned, the reference its cursor points at, and whether a writer
\* has deleted the record at that reference
NoSession ==
  [valid |-> FALSE, p |-> 0, n |-> 0, seen |-> <<>>, calls |-> 0, lastEmpty |-> FALSE,
   chain |-> FALSE, pages |-> <<>>, at |-> NoRef, gone |-> FALSE]

\* the session history after a write that removed the records ids
Written(se, ids) ==
  [NoSession EXCEPT !.chain = se.chain, !.pages = se.pages, !.at = se.at,
                    !.gone = se.gone \/ (se.chain /\ DocOfPath(se.at) \in ids)]

\* the records of the collection that a constraint list selects
Matching(queryConstraints) ==
  {id \in DOMAIN store :
     Matches(_applyQueryConstraints(CollectionRef, queryConstraints).clauses, store[id])}

\* a session starts with a cursor of page size >= 1 and no continuation reference
NewSession(queryConstraints, cursor) ==
  LET chain == [NoSession EXCEPT !.chain = TRUE, !.at = cursor.startAfter]
  IN IF cursor.startAfter = NoRef /\ cursor.interval >= 1
     THEN [chain EXCEPT !.valid = TRUE, !.p = cursor.interval,
                        !.n = Cardinality(Matching(queryConstraints))]
     ELSE chain

\* orderBy(fieldPath, directionStr)
orderBy(fieldPath, directionStr) ==
  [type |-> "orderBy", fieldPath |-> fieldPath, directionStr |-> directionStr]

Runs == {1, 2}

\* a deleteCollection run that has not been started
NoRun ==
  [promise |-> "none", batchSize |-> 0, tasks |-> {}, rounds |-> 0,
   initial |-> {}, deleted |-> [id \in Docs |-> 0], failed |-> FALSE,
   unhandled |-> FALSE, lastSize |-> 0, settles |-> 0]

\* mutant: the query of deleteCollection without its limit
DeleteQuery_NoLimit(batchSize) ==
  _applyQueryConstraints(CollectionRef, <<orderBy("__name__", "asc")>>)

\* deleteCollection's query: collectionRef.orderBy("__name__").limit(batchSize)
DeleteQuery(batchSize) ==
  Limit(_applyQueryConstraints(CollectionRef, <<orderBy("__name__", "asc")>>),
        batchSize)

\* a promise settles once: resolve and reject of a settled promise do nothing
Settle(promise, outcome) == IF promise = "pending" THEN outcome ELSE promise

\* mutant: batch.commit() is not awaited, the next round is scheduled at once
CommitIssued_NotAwaited(t, ids) ==
  {[kind |-> "commit", round |-> t.round, docs |-> ids, caught |-> t.caught,
    depth |-> t.depth],
   [kind |-> "tick", round |-> t.round + 1, docs |-> {}, caught |-> FALSE,
    depth |-> 0]}

\* _deleteQueryBatch after a non-empty snapshot: the batch of deletes is
\* committed and the invocation waits for the commit
CommitIssued(t, ids) ==
  {[kind |-> "commit", round |-> t.round, docs |-> ids, caught |-> t.caught,
    depth |-> t.depth]}

\* mutant: the next round is a nested call that the invocation waits for
CommitResolved_NestedCall(t) ==
  {[kind |-> "get", round |-> t.round + 1, docs |-> {}, caught |-> t.caught,
    depth |-> t.depth + 1]}

\* mutant: resolve(true) is called after every query, the empty-snapshot test
\* only decides whether a batch is committed
SnapshotHandled_AlwaysResolves(t, ids) ==
  [resolve |-> TRUE, tasks |-> IF ids = {} THEN {} ELSE CommitIssued(t, ids)]

\* _deleteQueryBatch after query.get(): an empty snapshot resolves the promise
\* and ends the run, any other snapshot is deleted in a batch
SnapshotHandled(t, ids) ==
  IF ids = {}
  THEN [resolve |-> TRUE, tasks |-> {}]
  ELSE [resolve |-> FALSE, tasks |-> CommitIssued(t, ids)]

\* mutant: the batch's deletes require their documents to exist
BatchDeletes_MustExist(st, ids) ==
  IF ids \subseteq DOMAIN st
  THEN [ok |-> TRUE, store |-> [k \in DOMAIN st \ ids |-> st[k]]]
  ELSE [ok |-> FALSE, store |-> st]

\* the batch of batch.delete(doc.ref) calls, committed: the deletes carry no
\* precondition, so a document that is already gone does not fail the batch
BatchDeletes(st, ids) ==
  [ok |-> TRUE, store |-> [k \in DOMAIN st \ ids |-> st[k]]]

\* mutant: after the commit the invocation returns without scheduling anything
CommitResolved_NoContinuation(t) == {}

\* _deleteQueryBatch after its commit resolved: the next round is scheduled
\* with process.nextTick, and the invocation returns.  depth counts the
\* _deleteQueryBatch invocations of the run that have not returned: none
\* while the callback waits in the queue
CommitResolved(t) ==
  {[kind |-> "tick", round |-> t.round + 1, docs |-> {}, caught |-> FALSE,
    depth |-> 0]}

----------------------------------------------------------------------------
\* Reading calls

\* the last call was op and it has returned a result
Returned(op) == pc = "idle" /\ ret.status = "ok" /\ call.op = op

Init ==
  /\ store \in Stores(Docs, PlainPayloads)
  /\ pc = "idle"
  /\ call = NoCall
  /\ q = CollectionRef
  /\ ret = NoResult
  /\ out = <<>>
  /\ sess = NoSession
  /\ dc = [r \in Runs |-> NoRun]
  /\ ac = <<>>
  /\ inserts = 0

\* collectionQuery up to its first storage call: the constraints are applied
\* and, when the cursor has a continuation reference, that document is fetched
CollectionQueryStart(op, queryConstraints, cur, given) ==
  LET query == _applyQueryConstraints(CollectionRef, queryConstraints)
  IN /\ pc = "idle"
     /\ call' = [NoCall EXCEPT !.op = op, !.queryConstraints = queryConstraints,
                                !.cursor = cur, !.given = given,
                                !.givenConstraints = queryConstraints,
                                !.again = /\ op = "cursorQuery"
                                          /\ Returned("cursorQuery")
                                          /\ ret.data = <<>>
                                          /\ ret.unchanged
                                          /\ given = ret.cursor
                                          /\ queryConstraints = call.queryConstraints]
     /\ ret' = NoResult
     /\ IF cur # <<>> /\ cur[1].startAfter # NoRef
        THEN pc' = "docGet" /\ q' = query
        ELSE /\ pc' = "queryGet"
             /\ q' = IF cur # <<>> THEN _applyCursor(query, cur[1], store) ELSE query
     /\ out' = <<>>
     /\ UNCHANGED <<store, dc, ac, inserts>>

\* collectionQuery(refStr, queryConstraints, cursor?)
CollectionQuery(queryConstraints, cur) ==
  /\ CollectionQueryStart("collectionQuery", queryConstraints, cur, cur)
  /\ sess' = NoSession

\* cursorQuery(refStr, queryConstraints, _cursor?) called by a new caller
CursorQuery(queryConstraints, _cursor) ==
  LET cursor == IF _cursor = <<>> THEN InitialCursor ELSE _cursor[1]
  IN /\ CollectionQueryStart("cursorQuery", queryConstraints, <<cursor>>, _cursor)
     /\ sess' = NewSession(queryConstraints, cursor)

\* cursorQuery called again with the cursor the previous call returned
CursorQueryNext ==
  /\ call.op = "cursorQuery"
  /\ ret.status = "ok"
  /\ ret.cursor[1].hasNext
  /\ CollectionQueryStart("cursorQuery", call.queryConstraints, ret.cursor, ret.cursor)
  /\ UNCHANGED sess

\* _applyCursor's document fetch resolves
ApplyCursorDocGet ==
  /\ pc = "docGet"
  /\ q' = _applyCursor(q, call.cursor[1], store)
  /\ call' = [call EXCEPT !.stale = ~DocGet(store, call.cursor[1].startAfter).exists]
  /\ pc' = "queryGet"
  /\ UNCHANGED <<store, ret, out, sess, dc, ac, inserts>>

\* collectionQuery's q.get() resolves; cursorQuery then updates the cursor
CollectionQueryGet ==
  /\ pc = "queryGet"
  /\ LET querySnapshot == QueryGet(q, store)
         data == [i \in 1..Len(querySnapshot) |-> ToItem(querySnapshot[i])]
         ids == [i \in 1..Len(querySnapshot) |-> querySnapshot[i].id]
         objs == CursorObjects(call.cursor[1], data)
     IN /\ ret' = [status |-> "ok", data |-> data, snaps |-> ids,
                   cursor |-> IF call.op = "cursorQuery"
                              THEN <<objs.returned>>
                              ELSE <<>>,
                   unchanged |-> TRUE]
        /\ call' = IF call.op = "cursorQuery"
                   THEN [call EXCEPT !.cursor = <<objs.arg>>]
                   ELSE call
        /\ sess' = LET se == IF sess.chain
                             THEN [sess EXCEPT !.pages = @ \o ids,
                                               !.at = objs.returned.startAfter]
                             ELSE sess
                   IN IF sess.valid
                      THEN [se EXCEPT !.seen = @ \o ids, !.calls = @ + 1,
                                      !.lastEmpty = (data = <<>>)]
                      ELSE se
  /\ pc' = "idle"
  /\ UNCHANGED <<store, q, out, dc, ac, inserts>>

\* a storage call of the reading call rejects: the call rejects with it
StorageFails ==
  /\ pc \in {"docGet", "queryGet"}
  /\ ret' = Failure
  /\ pc' = "idle"
  /\ sess' = NoSession
  /\ UNCHANGED <<store, call, q, out, dc, ac, inserts>>

\* docQuery(refStr)
DocQuery(id) ==
  /\ pc = "idle"
  /\ LET snapshot == DocGet(store, RefPath(id))
     IN /\ ret' = DocQueryResult(snapshot)
        /\ call' = [NoCall EXCEPT !.op = "docQuery", !.path = RefPath(id),
                                  !.found = snapshot.exists]
  /\ sess' = NoSession
  /\ out' = <<>>
  /\ UNCHANGED <<store, pc, q, dc, ac, inserts>>

\* queryData applied to an item the last call returned
QueryDataOfItem(i) ==
  /\ pc = "idle"
  /\ i \in 1..Len(ret.data)
  /\ out' = <<[src |-> ret.data[i], res |-> queryData(ret.data[i])]>>
  /\ UNCHANGED <<store, pc, call, q, ret, sess, dc, ac, inserts>>

\* queryData applied to its own output
QueryDataAgain ==
  /\ out # <<>>
  /\ out' = <<[src |-> out[1].res, res |-> queryData(out[1].res)]>>
  /\ UNCHANGED <<store, pc, call, q, ret, sess, dc, ac, inserts>>

\* deleteDoc(refStr)
DeleteDoc(id) ==
  /\ id \in DOMAIN store
  /\ store' = [k \in DOMAIN store \ {id} |-> store[k]]
  /\ sess' = Written(sess, {id})
  /\ call' = [call EXCEPT !.again = FALSE]
  /\ ret' = [ret EXCEPT !.unchanged = FALSE]
  /\ UNCHANGED <<pc, q, out, dc, ac, inserts>>

Next ==
  \/ \E cur \in {<<>>} \cup {<<c>> : c \in Cursors} : CollectionQuery(<<>>, cur)
  \/ \E cur \in {<<>>} \cup {<<c>> : c \in Cursors} : CursorQuery(<<>>, cur)
  \/ CursorQueryNext
  \/ ApplyCursorDocGet
  \/ CollectionQueryGet
  \/ StorageFails
  \/ \E id \in Docs : DocQuery(id)
  \/ \E id \in Docs : DeleteDoc(id)

Spec == Init /\ [][Next]_vars

----------------------------------------------------------------------------
\* deleteCollection

\* deleteCollection(refStr, batchSize): the promise is created and the first
\* _deleteQueryBatch invocation, whose rejection is passed to reject, issues
\* its query
DeleteCollection(r, batchSize) ==
  /\ dc[r].promise = "none"
  /\ dc' = [dc EXCEPT ![r] =
              [NoRun EXCEPT !.promise = "pending", !.batchSize = batchSize,
                            !.tasks = {[kind |-> "get", round |-> 1, docs |-> {},
                                        caught |-> TRUE, depth |-> 1]},
                            !.rounds = 1, !.initial = DOMAIN store]]
  /\ UNCHANGED <<store, readVars, ac, inserts>>

\* _deleteQueryBatch: query.get() resolves
DeleteQueryBatchGet(r) ==
  \E t \in dc[r].tasks :
    /\ t.kind = "get"
    /\ LET snapshot == QueryGet(DeleteQuery(dc[r].batchSize), store)
           batchSize == Len(snapshot)
           ids == {snapshot[i].id : i \in 1..batchSize}
           next == SnapshotHandled(t, ids)
       IN dc' = [dc EXCEPT ![r].promise = IF next.resolve
                                          THEN Settle(@, "resolved(true)") ELSE @,
                           ![r].settles = IF next.resolve THEN @ + 1 ELSE @,
                           ![r].tasks = (@ \ {t}) \cup next.tasks,
                           ![r].lastSize = batchSize]
    /\ UNCHANGED <<store, readVars, ac, inserts>>

\* _deleteQueryBatch: batch.commit() resolves, all deletes of the batch applied
DeleteQueryBatchCommit(r) ==
  \E t \in dc[r].tasks :
    /\ t.kind = "commit"
    /\ LET res == BatchDeletes(store, t.docs)
       IN IF res.ok
          THEN /\ store' = res.store
               /\ dc' = [dc EXCEPT ![r].tasks = (@ \ {t}) \cup CommitResolved(t),
                                   ![r].deleted = [id \in Docs |->
                                      IF id \in t.docs THEN @[id] + 1 ELSE @[id]]]
               /\ sess' = IF t.docs \cap DOMAIN store # {}
                          THEN Written(sess, t.docs \cap DOMAIN store) ELSE sess
               /\ call' = [call EXCEPT !.again = @ /\ t.docs \cap DOMAIN store = {}]
               /\ ret' = [ret EXCEPT !.unchanged = @ /\ t.docs \cap DOMAIN store = {}]
          ELSE /\ dc' = [dc EXCEPT ![r].tasks = @ \ {t},
                                   ![r].failed = TRUE,
                                   ![r].promise = IF t.caught
                                                  THEN Settle(@, "rejected") ELSE @,
                                   ![r].settles = IF t.caught THEN @ + 1 ELSE @,
                                   ![r].unhandled = @ \/ ~t.caught]
               /\ UNCHANGED <<store, sess, call, ret>>
    /\ UNCHANGED <<pc, q, out, ac, inserts>>

\* the process.nextTick callback runs: the next _deleteQueryBatch invocation,
\* whose promise nobody handles, issues its query
DeleteQueryBatchTick(r) ==
  \E t \in dc[r].tasks :
    /\ t.kind = "tick"
    /\ dc' = [dc EXCEPT ![r].tasks = (@ \ {t}) \cup
                                      {[kind |-> "get", round |-> t.round,
                                        docs |-> {}, caught |-> FALSE,
                                        depth |-> t.depth + 1]},
                        ![r].rounds = @ + 1]
    /\ UNCHANGED <<store, readVars, ac, inserts>>

\* query.get() or batch.commit() rejects: the _deleteQueryBatch invocation
\* rejects; only the first invocation's rejection reaches reject
DeleteStorageFails(r) ==
  \E t \in dc[r].tasks :
    /\ t.kind \in {"get", "commit"}
    /\ dc' = [dc EXCEPT ![r].tasks = @ \ {t},
                        ![r].failed = TRUE,
                        ![r].promise = IF t.caught THEN Settle(@, "rejected") ELSE @,
                        ![r].settles = IF t.caught THEN @ + 1 ELSE @,
                        ![r].unhandled = @ \/ ~t.caught]
    /\ UNCHANGED <<store, readVars, ac, inserts>>

BatchSizes == 1..MaxBatchSize \cup {DefaultBatchSize}

NextDelete ==
  \/ \E b \in BatchSizes : DeleteCollection(1, b)
  \/ \E r \in Runs : DeleteQueryBatchGet(r)
  \/ \E r \in Runs : DeleteQueryBatchCommit(r)
  \/ \E r \in Runs : DeleteQueryBatchTick(r)
  \/ \E r \in Runs : DeleteStorageFails(r)

SpecDelete == Init /\ [][NextDelete]_vars

\* deleteCollection while other clients write to the collection

MaxInserts == 2

\* another client creates a document
InsertDoc(id) ==
  /\ inserts < MaxInserts
  /\ id \notin DOMAIN store
  /\ store' = [k \in DOMAIN store \cup {id} |->
                IF k = id THEN [f \in {"v"} |-> 7] ELSE store[k]]
  /\ inserts' = inserts + 1
  /\ call' = [call EXCEPT !.again = FALSE]
  /\ ret' = [ret EXCEPT !.unchanged = FALSE]
  /\ sess' = Written(sess, {})
  /\ UNCHANGED <<pc, q, out, dc, ac>>

NextDeleteW ==
  \/ \E b \in BatchSizes : DeleteCollection(1, b)
  \/ \E r \in Runs : DeleteQueryBatchGet(r)
  \/ \E r \in Runs : DeleteQueryBatchCommit(r)
  \/ \E r \in Runs : DeleteQueryBatchTick(r)
  \/ \E r \in Runs : DeleteStorageFails(r)
  \/ \E id \in Docs : InsertDoc(id)
  \/ \E id \in Docs : DeleteDoc(id)

SpecDeleteW == Init /\ [][NextDeleteW]_vars

\* deleteCollection without storage failure while other clients write during
\* the run: every storage call that is in flight resolves and every queued
\* callback runs
MaxLiveDocs == 2

MaxLiveInserts == 1

\* the collection starts with the names 1..k, for some k up to MaxLiveDocs
InitLive ==
  /\ Init
  /\ \E k \in 0..MaxLiveDocs : DOMAIN store = 1..k

\* the pending step of run r: its storage call resolves or its callback runs
RunStep(r) ==
  \/ DeleteQueryBatchGet(r)
  \/ DeleteQueryBatchCommit(r)
  \/ DeleteQueryBatchTick(r)

NextDeleteLive ==
  \/ \E b \in 1..MaxBatchSize : DeleteCollection(1, b)
  \/ \E r \in Runs : DeleteQueryBatchGet(r)
  \/ \E r \in Runs : DeleteQueryBatchCommit(r)
  \/ \E r \in Runs : DeleteQueryBatchTick(r)
  \/ \E id \in 1..MaxLiveDocs :
       dc[1].promise = "pending" /\ inserts < MaxLiveInserts /\ InsertDoc(id)
  \/ \E id \in 1..MaxLiveDocs : dc[1].promise = "pending" /\ DeleteDoc(id)

SpecDeleteLive ==
  /\ InitLive
  /\ [][NextDeleteLive]_vars
  /\ \A r \in Runs : WF_vars(RunStep(r))

\* pagination while other clients insert and delete documents
NextPageW ==
  \/ \E cur \in {<<>>} \cup {<<c>> : c \in Cursors} : CursorQuery(<<>>, cur)
  \/ CursorQueryNext
  \/ ApplyCursorDocGet
  \/ CollectionQueryGet
  \/ \E id \in Docs : InsertDoc(id)
  \/ \E id \in Docs : DeleteDoc(id)

SpecPageW == Init /\ [][NextPageW]_vars

\* two deleteCollection runs on the same collection, no storage failure and
\* no other writer
NextDelete2 ==
  \/ \E r \in Runs, b \in 1..MaxBatchSize : DeleteCollection(r, b)
  \/ \E r \in Runs : DeleteQueryBatchGet(r)
  \/ \E r \in Runs : DeleteQueryBatchCommit(r)
  \/ \E r \in Runs : DeleteQueryBatchTick(r)

SpecDelete2 ==
  /\ InitLive
  /\ [][NextDelete2]_vars
  /\ \A r \in Runs : WF_vars(RunStep(r))

\* The same calls over collections whose payloads may themselves hold fields
\* named id and ref
InitItem ==
  /\ store \in Stores(1..MaxItemDocs, Payloads)
  /\ pc = "idle"
  /\ call = NoCall
  /\ q = CollectionRef
  /\ ret = NoResult
  /\ out = <<>>
  /\ sess = NoSession
  /\ dc = [r \in Runs |-> NoRun]
  /\ ac = <<>>
  /\ inserts = 0

\* cursors of page size 1 that start a pagination
ItemCursors == {c \in Cursors : c.interval = 1 /\ c.startAfter = NoRef /\ c.hasNext}

NextItem ==
  \/ \E cs \in ConstraintLists, cur \in {<<>>} \cup {<<c>> : c \in ItemCursors} :
       CollectionQuery(cs, cur)
  \/ \E cs \in ConstraintLists, cur \in {<<>>} \cup {<<c>> : c \in ItemCursors} :
       CursorQuery(cs, cur)
  \/ CursorQueryNext
  \/ ApplyCursorDocGet
  \/ CollectionQueryGet
  \/ \E id \in 1..MaxItemDocs : DocQuery(id)
  \/ \E i \in 1..MaxItemDocs : QueryDataOfItem(i)
  \/ QueryDataAgain

SpecItem == InitItem /\ [][NextItem]_vars

----------------------------------------------------------------------------
\* _applyQueryConstraints on its own: any base query, any constraint list

MaxConstraints == 3

\* the constraints a caller can build with where(..) and orderBy(..)
Constraints ==
  {where("v", "==", 7), where("id", "==", 7),
   orderBy("v", "asc"), orderBy("v", "desc")}

RECURSIVE SeqsUpTo(_, _)
SeqsUpTo(S, n) ==
  IF n = 0 THEN {<<>>}
  ELSE LET shorter == SeqsUpTo(S, n - 1)
       IN shorter \cup {Append(l, c) : l \in shorter, c \in S}

\* queries a caller can hand in: the bare collection, and queries that
\* already carry clauses or a limit
BaseQueries ==
  {CollectionRef,
   [CollectionRef EXCEPT !.clauses = <<orderBy("__name__", "asc")>>],
   [CollectionRef EXCEPT !.clauses = <<where("v", "==", 7)>>, !.limit = <<1>>]}

InitApply ==
  /\ store = [id \in {} |-> [f \in {} |-> 7]]
  /\ pc = "idle"
  /\ call = NoCall
  /\ q = CollectionRef
  /\ ret = NoResult
  /\ out = <<>>
  /\ sess = NoSession
  /\ dc = [r \in Runs |-> NoRun]
  /\ ac = <<>>
  /\ inserts = 0

ApplyQueryConstraints(query, queryConstraints) ==
  /\ ac' = <<[query |-> query, list |-> queryConstraints,
              res |-> _applyQueryConstraints(query, queryConstraints)]>>
  /\ UNCHANGED <<store, readVars, dc, inserts>>

NextApply ==
  \E query \in BaseQueries, l \in SeqsUpTo(Constraints, MaxConstraints) :
    ApplyQueryConstraints(query, l)

SpecApply == InitApply /\ [][NextApply]_vars

----------------------------------------------------------------------------
\* cursorQuery called without a cursor, over collections that hold up to
\* MaxExtraDocs documents more than the default page size

MaxExtraDocs == 2

\* collections whose documents are the names lo..hi, all with the same payload
RangeStores ==
  {[id \in lo..hi |-> [f \in {"v"} |-> 7]] :
     lo \in 1..(DefaultInterval + MaxExtraDocs),
     hi \in 0..(DefaultInterval + MaxExtraDocs)}

InitDefault ==
  /\ store \in RangeStores
  /\ pc = "idle"
  /\ call = NoCall
  /\ q = CollectionRef
  /\ ret = NoResult
  /\ out = <<>>
  /\ sess = NoSession
  /\ dc = [r \in Runs |-> NoRun]
  /\ ac = <<>>
  /\ inserts = 0

NextDefault ==
  \/ CursorQuery(<<>>, <<>>)
  \/ CursorQueryNext
  \/ ApplyCursorDocGet
  \/ CollectionQueryGet

SpecDefault == InitDefault /\ [][NextDefault]_vars

----------------------------------------------------------------------------
\* Properties

\* C1: a pagination session over an unmodified collection with N records that
\* the constraints select, with page size p >= 1, started without a continuation reference and continued
\* with each returned cursor until hasNext = false, has retrieved every record
\* exactly once, in ceil(N/p) calls or in ceil(N/p)+1 calls of which the last
\* returned an empty page.
C1_CursorRoundTrip ==
  (sess.valid /\ Returned("cursorQuery") /\ ~ret.cursor[1].hasNext) =>
     /\ Len(sess.seen) = sess.n
     /\ {sess.seen[i] : i \in 1..Len(sess.seen)} = Matching(call.queryConstraints)
     /\ \A i, j \in 1..Len(sess.seen) : i # j => sess.seen[i] # sess.seen[j]
     /\ sess.calls \in {Ceil(sess.n, sess.p), Ceil(sess.n, sess.p) + 1}
     /\ sess.calls = Ceil(sess.n, sess.p) + 1 => sess.lastEmpty

\* a session of 3 records with page size 2 has ended after two calls
C1_Witness ==
  /\ sess.valid /\ Returned("cursorQuery") /\ ~ret.cursor[1].hasNext
  /\ sess.n = 3 /\ sess.p = 2 /\ sess.calls = 2

\* C2: deleteCollection over N records with batch size b, no storage failure
\* and no other writer: each record is deleted at most once while it runs;
\* when it has finished the promise is resolved to true, exactly ceil(N/b)+1
\* queries were issued, the last one returned no record, every record was
\* deleted exactly once and the collection is empty.
C2_DeleteCollection ==
  LET d == dc[1]
      rounds == Ceil(Cardinality(d.initial), d.batchSize) + 1
  IN (d.promise # "none" /\ ~d.failed) =>
       /\ d.rounds <= rounds
       /\ \A id \in Docs : d.deleted[id] <= 1
       /\ d.tasks = {} =>
            /\ d.promise = "resolved(true)"
            /\ d.rounds = rounds
            /\ d.lastSize = 0
            /\ \A id \in Docs : d.deleted[id] = IF id \in d.initial THEN 1 ELSE 0
            /\ DOMAIN store = {}

\* a run over 3 records with batch size 2 has finished after 3 queries
C2_Witness ==
  /\ dc[1].promise = "resolved(true)" /\ dc[1].tasks = {}
  /\ Cardinality(dc[1].initial) = 3 /\ dc[1].batchSize = 2 /\ dc[1].rounds = 3

\* C3: once a query fetch or a batch commit of a run has failed, in whatever
\* round, the promise deleteCollection returned is rejected.
C3_FailureRejects ==
  \A r \in Runs : dc[r].failed => dc[r].promise = "rejected"

\* C4: while a batch commit of a run is in flight, no query of a later round
\* and no other commit of that run is in flight.
C4_SequentialRounds ==
  \A r \in Runs : \A t1, t2 \in dc[r].tasks :
     t1.kind = "commit" =>
       /\ t2.kind = "get" => t2.round <= t1.round
       /\ t2.kind = "commit" => t2 = t1

\* the query of round 2 is in flight after round 1 deleted its batch
C4_Witness ==
  \E t \in dc[1].tasks :
     /\ t.kind = "get" /\ t.round = 2
     /\ \E id \in Docs : dc[1].deleted[id] = 1

\* C5: a cursorQuery call that retrieves an empty page returns, for every input
\* cursor, a cursor with hasNext = false and the input cursor's startAfter.
C5_EmptyPageCursor ==
  (Returned("cursorQuery") /\ ret.data = <<>>) =>
     /\ ~ret.cursor[1].hasNext
     /\ ret.cursor[1].startAfter = call.cursor[1].startAfter

\* C6: a cursorQuery call that retrieves a non-empty page returns a cursor
\* whose startAfter is the ref of the page's last item and whose hasNext is
\* true exactly when the page holds as many items as the input page size.
C6_NonEmptyPageCursor ==
  (Returned("cursorQuery") /\ ret.data # <<>>) =>
     /\ ret.cursor[1].startAfter = ret.data[Len(ret.data)].ref
     /\ ret.cursor[1].hasNext <=> (Len(ret.data) = call.cursor[1].interval)

\* a page of two items was retrieved with page size 3 from a cursor that had a
\* continuation reference
C6_Witness ==
  /\ Returned("cursorQuery") /\ Len(ret.data) = 2
  /\ call.cursor[1].interval = 3 /\ call.cursor[1].startAfter # NoRef
  /\ ~ret.cursor[1].hasNext

\* C7: a collectionQuery or cursorQuery call given a cursor returns at most
\* cursor.interval records, for every cursor.
C7_PageBounded ==
  (pc = "idle" /\ ret.status = "ok" /\ call.cursor # <<>>) =>
     Len(ret.data) <= call.cursor[1].interval

\* C8: a call whose cursor's continuation reference did not resolve to an
\* existing record fails; it returns no page.
C8_StaleCursorFails ==
  (pc = "idle" /\ call.stale) => ret.status = "error"

\* C9: every item a call returns carries the snapshot's id and the snapshot's
\* reference path as its id and ref, whatever the payload holds.
C9_ItemIdentity ==
  (pc = "idle" /\ ret.status = "ok") =>
     \A i \in 1..Len(ret.data) :
        /\ {"id", "ref"} \subseteq DOMAIN ret.data[i]
        /\ ret.data[i].id = ret.snaps[i]
        /\ ret.data[i].ref = RefPath(ret.snaps[i])

\* cursorQuery returned an item whose stored payload has its own id and ref
C9_Witness ==
  /\ Returned("cursorQuery")
  /\ \E i \in 1..Len(ret.data) :
        /\ ret.snaps[i] \in DOMAIN store
        /\ {"id", "ref"} \subseteq DOMAIN store[ret.snaps[i]]
        /\ store[ret.snaps[i]].id # ret.snaps[i]

\* C10: queryData returns its input without id and ref and with every other
\* field and value kept; on its own output it changes nothing.
C10_QueryData ==
  out # <<>> =>
     /\ DOMAIN out[1].res = DOMAIN out[1].src \ {"id", "ref"}
     /\ \A f \in DOMAIN out[1].res : out[1].res[f] = out[1].src[f]
     /\ (DOMAIN out[1].src \cap {"id", "ref"} = {}) => out[1].res = out[1].src

\* queryData was applied to its own output, which kept the payload field
C10_Witness ==
  /\ out # <<>>
  /\ out[1].src = out[1].res
  /\ "v" \in DOMAIN out[1].res

\* C11: for every base query and every constraint list L, the query built by
\* _applyQueryConstraints has the base query's clauses followed by exactly one
\* clause per element of L, in L's order (nothing reordered, merged,
\* deduplicated or dropped); the result is a function of the two inputs, and
\* the base query's cursor position and limit are left as they were.
C11_ClauseSequence ==
  ac # <<>> =>
    LET a == ac[1]
        base == a.query.clauses
    IN /\ Len(a.res.clauses) = Len(base) + Len(a.list)
       /\ \A i \in 1..Len(base) : a.res.clauses[i] = base[i]
       /\ \A i \in 1..Len(a.list) : a.res.clauses[Len(base) + i] = a.list[i]
       /\ a.res.startAfter = a.query.startAfter
       /\ a.res.limit = a.query.limit

\* a base query with a clause, extended by a list that repeats a constraint
\* and puts an ordering before a filter
C11_Witness ==
  /\ ac # <<>>
  /\ ac[1].query.clauses # <<>>
  /\ ac[1].list = <<orderBy("v", "asc"), where("v", "==", 7), where("v", "==", 7)>>
  /\ Len(ac[1].res.clauses) = 4

\* C12: docQuery on a path where no document exists returns null and does not
\* fail; it returns an item only when the fetched snapshot exists (and then
\* the item of that document).
C12_MissingDocIsNull ==
  (pc = "idle" /\ call.op = "docQuery") =>
     /\ ~call.found => (ret.status = "ok" /\ ret.data = <<>>)
     /\ ret.data # <<>> =>
          (call.found /\ Len(ret.data) = 1 /\ ret.data[1].ref = call.path)

\* docQuery of a missing document of a collection that holds other documents
C12_Witness ==
  /\ Returned("docQuery")
  /\ ~call.found
  /\ ret.data = <<>>
  /\ DOMAIN store # {}
  /\ DocOfPath(call.path) \notin DOMAIN store

\* C13: cursorQuery and collectionQuery never change their arguments in place:
\* throughout and after the call the caller's constraint list and cursor
\* object hold the values they had when they were passed, and the cursor that
\* cursorQuery returns is a new value whose page size is the input cursor's.
C13_ArgumentsUntouched ==
  call.op \in {"cursorQuery", "collectionQuery"} =>
     /\ call.queryConstraints = call.givenConstraints
     /\ call.given # <<>> => call.cursor = call.given
     /\ Returned("cursorQuery") =>
          ret.cursor[1].interval =
            (IF call.given = <<>> THEN InitialCursor ELSE call.given[1]).interval

\* a cursorQuery with a constraint list and a cursor has returned a cursor
\* that differs from the one passed, which is still what it was
C13_Witness ==
  /\ Returned("cursorQuery")
  /\ call.givenConstraints # <<>>
  /\ call.given # <<>>
  /\ ret.cursor # call.given
  /\ call.cursor = call.given

\* C14: the continuation of a round is queued as a new asynchronous unit, not
\* called from the round before: at any moment at most one _deleteQueryBatch
\* invocation of a run has not returned, whatever the number of rounds, and a
\* queued continuation has no invocation below it.
C14_BoundedNesting ==
  \A r \in Runs :
     /\ \A t \in dc[r].tasks :
          /\ t.depth <= 1
          /\ t.kind = "tick" => t.depth = 0
     /\ Cardinality({t \in dc[r].tasks : t.kind \in {"get", "commit"}}) <= 1

\* the third round's query is in flight, issued by the only active invocation
C14_Witness ==
  \E t \in dc[1].tasks :
     /\ t.kind = "get" /\ t.round = 3 /\ t.depth = 1
     /\ dc[1].rounds = 3
     /\ dc[1].tasks = {t}

\* C15: cursorQuery called without a cursor behaves as with the initial cursor
\* (page size 10, hasNext true, no continuation reference): the page is the
\* first records of the collection in order, at most 10 of them, the query
\* it ran had limit 10 and no cursor position, and the returned cursor has
\* page size 10.
C15_DefaultCursor ==
  (Returned("cursorQuery") /\ call.given = <<>>) =>
     LET all == SortedIds(DOMAIN store)
     IN /\ Len(ret.data) <= 10
        /\ ret.snaps = SubSeq(all, 1, Min(10, Len(all)))
        /\ q.limit = <<10>>
        /\ q.startAfter = <<>>
        /\ ret.cursor[1].interval = 10
        /\ ret.cursor[1].hasNext <=> (Len(all) >= 10)

\* a collection of 12 records: the call without cursor returned the first 10
C15_Witness ==
  /\ Returned("cursorQuery") /\ call.given = <<>>
  /\ Cardinality(DOMAIN store) = 12
  /\ Len(ret.data) = 10
  /\ ret.cursor[1].startAfter = RefPath(10)

\* C16: whatever other writers insert or delete meanwhile, the promise of a
\* deleteCollection run is resolved (to true) only after a query of that run
\* returned no record; resolve or reject is called at most once for it; and
\* once it is resolved the run has no query, commit or continuation pending,
\* the empty query staying the run's last.
C16_ResolvesOnEmptyRound ==
  \A r \in Runs :
     /\ dc[r].settles <= 1
     /\ dc[r].promise = "resolved(true)" =>
          /\ dc[r].rounds >= 1
          /\ dc[r].lastSize = 0
          /\ dc[r].tasks = {}

\* a run resolved after three queries although a record was inserted while it
\* ran; the record inserted after its last query is still there
C16_Witness ==
  /\ dc[1].promise = "resolved(true)"
  /\ dc[1].rounds = 3
  /\ inserts = 2
  /\ DOMAIN store # {}

\* the step in which the commit t of run r resolves
CommitStep(r, t) == t \in dc[r].tasks /\ t.kind = "commit" /\ t \notin dc[r].tasks'

\* C17 as stated: with batchSize >= 1, a finite collection, no storage failure
\* and finitely many inserts by other writers, a started run eventually
\* resolves its promise, and each round that found records removes at least
\* one record from the collection before the next round queries.
C17_TerminatesRemovingEachRound ==
  /\ \A r \in Runs : (dc[r].promise = "pending") ~> (dc[r].promise = "resolved(true)")
  /\ [][\A r \in Runs : \A t \in dc[r].tasks :
          CommitStep(r, t) => DOMAIN store' # DOMAIN store]_vars

\* C17, amended: under the same conditions a started run eventually resolves
\* its promise; each round that found records commits a batch naming at least
\* one record, after its commit none of the records it found is in the
\* collection, and the commit itself removes at least one record when no
\* other writer has deleted all of them since the round's query.
C17_Terminates ==
  /\ \A r \in Runs : (dc[r].promise = "pending") ~> (dc[r].promise = "resolved(true)")
  /\ [][\A r \in Runs : \A t \in dc[r].tasks :
          CommitStep(r, t) =>
            /\ t.docs # {}
            /\ t.docs \cap DOMAIN store' = {}
            /\ t.docs \cap DOMAIN store # {} => DOMAIN store' # DOMAIN store]_vars

\* a run has resolved after deleting a record twice: a writer had inserted it
\* again after the run's first delete
C17_Witness ==
  /\ dc[1].promise = "resolved(true)"
  /\ inserts >= 1
  /\ \E id \in Docs : dc[1].deleted[id] = 2

\* C18: when a cursorQuery call returned an empty page and is called again
\* with the cursor it returned, on an unchanged collection, the second call
\* returns an empty page and a cursor equal to the one passed in, with
\* hasNext = false.
C18_EmptyPageRepeats ==
  (Returned("cursorQuery") /\ call.again) =>
     /\ ret.data = <<>>
     /\ ret.cursor = call.given
     /\ ~ret.cursor[1].hasNext

\* C19: in a chain of cursorQuery calls, each fed the cursor the previous one
\* returned, interleaved with other writers that insert records or delete
\* records other than the one the cursor points at (a record's place in the
\* order never changes), no record is returned in more than one page.
C19_NoDuplicates ==
  (sess.chain /\ ~sess.gone) =>
     \A i, j \in 1..Len(sess.pages) : i # j => sess.pages[i] # sess.pages[j]

\* three pages were returned while writers inserted a record and deleted one
\* that an earlier page had returned
C19_Witness ==
  /\ sess.chain /\ ~sess.gone
  /\ Returned("cursorQuery")
  /\ Len(sess.pages) = 3
  /\ call.cursor[1].interval = 1
  /\ inserts >= 1
  /\ sess.pages[1] \notin DOMAIN store

\* C20: two deleteCollection runs on the same collection, with no storage
\* failure, no other writer and batchSize >= 1, both eventually resolve to
\* true whatever the interleaving of their rounds, and once both have resolved
\* the collection is empty.
C20_BothResolve ==
  /\ (\A r \in Runs : dc[r].promise # "none")
       ~> (\A r \in Runs : dc[r].promise = "resolved(true)")
  /\ []((\A r \in Runs : dc[r].promise = "resolved(true)") => DOMAIN store = {})

\* both runs have resolved, and a record that both had fetched was named in a
\* committed batch of each
C20_Witness ==
  /\ \A r \in Runs : dc[r].promise = "resolved(true)"
  /\ \E id \in Docs : \A r \in Runs : dc[r].deleted[id] = 1
  /\ DOMAIN store = {}

====
